---- MODULE Spec2Model ----
(***************************************************************************)
(* Verification model of the make_illust server.                           *)
(*                                                                         *)
(*   Spec       - the concurrent batch runners of server/main.py           *)
(*                (generate_images_with_vertex_simple, _with_vertex,       *)
(*                generate_emo_with_vertex, generate_fantasy_with_vertex)  *)
(*   SpecDepth  - the depth layering pipeline of server/depth_anything.py  *)
(*   SpecMatte  - the pixel pass of remove_green_background                *)
(*   SpecRemove - remove_green_background with its fallback levels         *)
(*   SpecParallax - generate_parallax_config                               *)
(*   SpecLive   - Spec with scheduling fairness                            *)
(*   SpecEndpoint - the handler of /api/generate/simple                    *)
(*                                                                         *)
(* Decimal literals of the source are held in hundredths (1.3 is 130).     *)
(***************************************************************************)
EXTENDS Integers, Sequences, FiniteSets, TLC

VARIABLES
    \* ---- batch runner (server/main.py) ----
    variant,      \* which of the four runners is executing
    credentials,  \* module-level credentials object is set
    bpc,          \* position of the request thread inside the runner
    images,       \* the local list `images`
    queue,        \* work items submitted to the executor, not yet picked up
    tstate,       \* per pooled task: position inside generate_expression
    calls,        \* per pooled task: the request_gemini_image calls it issued
    future,       \* per pooled task: the value its future resolved to
    yielded,      \* futures already handed out by as_completed
    results,      \* the dict `results`, in insertion order
    raised,       \* the exception travelling out of the runner
    access,       \* which pooled task read or wrote which non-local variable
    \* ---- depth layering (server/depth_anything.py) ----
    use_local,    \* the use_local argument of estimate_depth_with_depth_anything
    dpc,          \* position inside the depth pipeline
    dfail,        \* which step of the pipeline failed, if any
    depth_array,  \* the grid handed to analyze_depth_array
    depth_result, \* the dict the pipeline returned
    ppc,          \* position inside generate_parallax_config
    depth_layers, \* the "layers" list of its argument
    parallax_config, \* the config it returned
    \* ---- matte cleanup (server/main.py remove_green_background) ----
    mpc,          \* position inside remove_green_background
    image_bytes,  \* the argument of remove_green_background
    matted,       \* the RGBA grid decoded from the matting step's output
    pixels,       \* the pixel buffer the pass works on in place
    first_pass,   \* the buffer as the first pass left it
    passes,       \* how often the pass has run over the buffer
    degraded,     \* how many levels of remove_green_background have failed
    returned,     \* what remove_green_background returned
    \* ---- endpoint /api/generate/simple (server/main.py) ----
    epc,          \* position inside generate_images_simple
    request,      \* the fields of the SimpleGenerateRequest the handler reads
    generated,    \* the list the batch runner returned
    processed_images, \* the list `processed_images`
    response      \* what the handler returned or raised

bvars == <<variant, credentials, bpc, images, queue, tstate, calls, future,
           yielded, results, raised, access>>
pvars == <<ppc, depth_layers, parallax_config>>
dvars == <<use_local, dpc, dfail, depth_array, depth_result, pvars>>
mvars == <<mpc, image_bytes, matted, pixels, first_pass, passes, degraded,
           returned>>
evars == <<epc, request, generated, processed_images, response>>
vars  == <<bvars, dvars, mvars, evars>>

(***************************************************************************)
(* Batch runner                                                            *)
(***************************************************************************)

\* len(expressions): one base image plus three edited variants
NumExpressions == 4
\* ThreadPoolExecutor(max_workers=3)
MaxWorkers == 3

Variants == {"simple", "legacy", "emo", "fantasy"}
Tasks == 1 .. (NumExpressions - 1)

NoImage == [task |-> -1, via |-> "none"]
\* the bytes request_gemini_image returns for a call of task t
Image(t, kind) == [task |-> t, via |-> kind]
BaseImage == Image(0, "generate")

NoError == [kind |-> "none", idx |-> 0]

\* request_gemini_image(prompt, seed, base_image=..., negative_prompt=...)
GeminiCall(kind, base) == [kind |-> kind, base_image |-> base]

RECURSIVE SortSet(_)
SortSet(S) ==
    IF S = {} THEN <<>>
    ELSE LET m == CHOOSE x \in S : \A y \in S : x <= y
         IN  <<m>> \o SortSet(S \ {m})

\* a Python dict as the sequence of its items in insertion order
DictKeys(d) == {d[j].key : j \in 1 .. Len(d)}
DictGet(d, k) == (CHOOSE j \in 1 .. Len(d) : d[j].key = k)
DictValue(d, k) == d[DictGet(d, k)].value
DictSet(d, k, v) ==
    IF k \in DictKeys(d)
    THEN [d EXCEPT ![DictGet(d, k)] = [key |-> k, value |-> v]]
    ELSE Append(d, [key |-> k, value |-> v])

\* mutation of ReassembleSorted: the values in completion (insertion) order
ReassembleInsertion(d) ==
    [j \in 1 .. Len(d) |-> d[j].value]

\* for idx in sorted(results.keys()): images.append(results[idx])
ReassembleSorted(d) ==
    LET ks == SortSet(DictKeys(d))
    IN  [j \in 1 .. Len(ks) |-> DictValue(d, ks[j])]

\* for i in range(1, 4): if i in results: images.append(results[i])
ReassembleRange(d) ==
    LET ks == SortSet(DictKeys(d) \cap Tasks)
    IN  [j \in 1 .. Len(ks) |-> DictValue(d, ks[j])]

Reassemble(v, d) ==
    IF v = "fantasy" THEN ReassembleRange(d) ELSE ReassembleSorted(d)

Running == {t \in Tasks : tstate[t] \in {"edit", "fallback"}}
Finished == {t \in Tasks : tstate[t] \in {"ok", "failed"}}

ParallaxIdle ==
    /\ ppc = "idle"
    /\ depth_layers = <<>>
    /\ parallax_config = <<>>

DepthIdle ==
    /\ use_local = FALSE
    /\ dpc = "idle"
    /\ dfail = "none"
    /\ depth_array = <<>>
    /\ depth_result = <<>>
    /\ ParallaxIdle

MatteIdle ==
    /\ mpc = "idle"
    /\ image_bytes = "none"
    /\ matted = <<>>
    /\ pixels = <<>>
    /\ first_pass = <<>>
    /\ passes = 0
    /\ degraded = 0
    /\ returned = [kind |-> "none"]

NoRequest ==
    [mode |-> "normal", return_type |-> "base64_list", character |-> FALSE,
     mode_character |-> FALSE]

EndpointIdle ==
    /\ epc = "idle"
    /\ request = NoRequest
    /\ generated = <<>>
    /\ processed_images = <<>>
    /\ response = [kind |-> "none"]

BatchIdle ==
    /\ variant = "simple"
    /\ credentials = TRUE
    /\ bpc = "idle"
    /\ images = <<>>
    /\ queue = <<>>
    /\ tstate = [t \in Tasks |-> "new"]
    /\ calls = [t \in Tasks |-> <<>>]
    /\ future = [t \in Tasks |-> NoImage]
    /\ yielded = {}
    /\ results = <<>>
    /\ raised = NoError
    /\ access = {}

Init ==
    /\ EndpointIdle
    /\ variant \in Variants
    /\ credentials \in BOOLEAN
    /\ bpc = "entry"
    /\ images = <<>>
    /\ queue = <<>>
    /\ tstate = [t \in Tasks |-> "new"]
    /\ calls = [t \in Tasks |-> <<>>]
    /\ future = [t \in Tasks |-> NoImage]
    /\ yielded = {}
    /\ results = <<>>
    /\ raised = NoError
    /\ access = {}
    /\ DepthIdle
    /\ MatteIdle

Access(t, var, mode) == [task |-> t, var |-> var, mode |-> mode]

\* mutation of CallAccesses: the task appends its image to `images` itself
CallAccessesAppending(t, kind) ==
    {Access(t, v, "read") : v \in {"base_prompt", "seed", "negative_prompt"}}
        \cup (IF kind = "edit" THEN {Access(t, "base_image", "read")} ELSE {})
        \cup {Access(t, "credentials", "read"), Access(t, "credentials", "write")}
        \cup {Access(t, "images", "write")}

\* what one request_gemini_image call of generate_expression touches outside
\* its locals: the closure variables it reads, and the module-level
\* credentials object, which it refreshes (writes) and whose token it reads
CallAccesses(t, kind) ==
    {Access(t, v, "read") : v \in {"base_prompt", "seed", "negative_prompt"}}
        \cup (IF kind = "edit" THEN {Access(t, "base_image", "read")} ELSE {})
        \cup {Access(t, "credentials", "read"), Access(t, "credentials", "write")}

\* if not credentials: raise HTTPException(500, "Credentials not configured")
CredentialsMissing ==
    /\ bpc = "entry"
    /\ ~credentials
    /\ bpc' = "raised"
    /\ raised' = [kind |-> "credentials", idx |-> 0]
    /\ UNCHANGED <<variant, credentials, images, queue, tstate, calls, future,
                   yielded, results>>
    /\ UNCHANGED <<access, dvars, mvars, evars>>

\* credentials.refresh, prompt construction, then the base call is sent
StartBase ==
    /\ bpc = "entry"
    /\ credentials
    /\ bpc' = "base_call"
    /\ UNCHANGED <<variant, credentials, images, queue, tstate, calls, future,
                   yielded, results, raised>>
    /\ UNCHANGED <<access, dvars, mvars, evars>>

\* base_image = request_gemini_image(first_prompt, seed, ...); images.append
BaseReturns ==
    /\ bpc = "base_call"
    /\ images' = Append(images, BaseImage)
    /\ bpc' = "submit"
    /\ UNCHANGED <<variant, credentials, queue, tstate, calls, future,
                   yielded, results, raised>>
    /\ UNCHANGED <<access, dvars, mvars, evars>>

\* mutation of BaseFails: the failure is recorded and the runner goes on
BaseFailsContinues ==
    /\ bpc = "base_call"
    /\ bpc' = "submit"
    /\ images' = Append(images, NoImage)
    /\ raised' = [kind |-> "base", idx |-> 0]
    /\ UNCHANGED <<variant, credentials, queue, tstate, calls, future,
                   yielded, results>>
    /\ UNCHANGED <<access, dvars, mvars, evars>>

\* the base call (or the refresh before it) raises: the outer except wraps it
BaseFails ==
    /\ bpc = "base_call"
    /\ bpc' = "raised"
    /\ raised' = [kind |-> "base", idx |-> 0]
    /\ UNCHANGED <<variant, credentials, images, queue, tstate, calls, future,
                   yielded, results>>
    /\ UNCHANGED <<access, dvars, mvars, evars>>

\* mutation of Submit: the work item is handed to the executor twice
SubmitTwice(t) ==
    /\ bpc = "submit"
    /\ tstate[t] = "new"
    /\ \A u \in Tasks : u < t => tstate[u] # "new"
    /\ tstate' = [tstate EXCEPT ![t] = "queued"]
    /\ queue' = queue \o <<t, t>>
    /\ bpc' = IF t = NumExpressions - 1 THEN "collect" ELSE "submit"
    /\ UNCHANGED <<variant, credentials, images, calls, future, yielded,
                   results, raised>>
    /\ UNCHANGED <<access, dvars, mvars, evars>>

\* executor.submit(generate_expression, exp_data) for the next idx
Submit(t) ==
    /\ bpc = "submit"
    /\ tstate[t] = "new"
    /\ \A u \in Tasks : u < t => tstate[u] # "new"
    /\ tstate' = [tstate EXCEPT ![t] = "queued"]
    /\ queue' = Append(queue, t)
    /\ bpc' = IF t = NumExpressions - 1 THEN "collect" ELSE "submit"
    /\ UNCHANGED <<variant, credentials, images, calls, future, yielded,
                   results, raised>>
    /\ UNCHANGED <<access, dvars, mvars, evars>>

\* mutation of TaskStart: the work item stays in the queue
TaskStartKeepsQueued(t) ==
    /\ queue # <<>>
    /\ Head(queue) = t
    /\ Cardinality(Running) < MaxWorkers
    /\ tstate' = [tstate EXCEPT ![t] = "edit"]
    /\ calls' = [calls EXCEPT ![t] = Append(@, GeminiCall("edit", images[1]))]
    /\ access' = access \cup CallAccesses(t, "edit")
    /\ UNCHANGED <<variant, credentials, bpc, images, queue, future, yielded,
                   results, raised>>
    /\ UNCHANGED <<dvars, mvars, evars>>

\* mutation of TaskStart: the edit call is sent without base_image
TaskStartWithoutBase(t) ==
    /\ queue # <<>>
    /\ Head(queue) = t
    /\ Cardinality(Running) < MaxWorkers
    /\ queue' = Tail(queue)
    /\ tstate' = [tstate EXCEPT ![t] = "edit"]
    /\ calls' = [calls EXCEPT ![t] = Append(@, GeminiCall("edit", NoImage))]
    /\ access' = access \cup CallAccesses(t, "edit")
    /\ UNCHANGED <<variant, credentials, bpc, images, future, yielded,
                   results, raised>>
    /\ UNCHANGED <<dvars, mvars, evars>>

\* a worker thread takes the oldest work item and sends the edit call
TaskStart(t) ==
    /\ queue # <<>>
    /\ Head(queue) = t
    /\ Cardinality(Running) < MaxWorkers
    /\ queue' = Tail(queue)
    /\ tstate' = [tstate EXCEPT ![t] = "edit"]
    /\ calls' = [calls EXCEPT ![t] = Append(@, GeminiCall("edit", images[1]))]
    /\ access' = access \cup CallAccesses(t, "edit")
    /\ UNCHANGED <<variant, credentials, bpc, images, future, yielded,
                   results, raised>>
    /\ UNCHANGED <<dvars, mvars, evars>>

\* the edit call returns an image: return result
EditReturns(t) ==
    /\ tstate[t] = "edit"
    /\ tstate' = [tstate EXCEPT ![t] = "ok"]
    /\ future' = [future EXCEPT ![t] = Image(t, "edit")]
    /\ UNCHANGED <<variant, credentials, bpc, images, queue, calls, yielded,
                   results, raised>>
    /\ UNCHANGED <<access, dvars, mvars, evars>>

\* mutation of EditFails: the retry still carries the base image
EditFailsKeepsBase(t) ==
    /\ tstate[t] = "edit"
    /\ tstate' = [tstate EXCEPT ![t] = "fallback"]
    /\ calls' = [calls EXCEPT ![t] = Append(@, GeminiCall("fallback", images[1]))]
    /\ access' = access \cup CallAccesses(t, "fallback")
    /\ UNCHANGED <<variant, credentials, bpc, images, queue, future, yielded,
                   results, raised>>
    /\ UNCHANGED <<dvars, mvars, evars>>

\* except Exception as edit_error: return request_gemini_image(fallback_prompt, ...)
EditFails(t) ==
    /\ tstate[t] = "edit"
    /\ tstate' = [tstate EXCEPT ![t] = "fallback"]
    /\ calls' = [calls EXCEPT ![t] = Append(@, GeminiCall("fallback", NoImage))]
    /\ access' = access \cup CallAccesses(t, "fallback")
    /\ UNCHANGED <<variant, credentials, bpc, images, queue, future, yielded,
                   results, raised>>
    /\ UNCHANGED <<dvars, mvars, evars>>

FallbackReturns(t) ==
    /\ tstate[t] = "fallback"
    /\ tstate' = [tstate EXCEPT ![t] = "ok"]
    /\ future' = [future EXCEPT ![t] = Image(t, "fallback")]
    /\ UNCHANGED <<variant, credentials, bpc, images, queue, calls, yielded,
                   results, raised>>
    /\ UNCHANGED <<access, dvars, mvars, evars>>

\* the fallback call raises inside the except clause: the future fails
FallbackFails(t) ==
    /\ tstate[t] = "fallback"
    /\ tstate' = [tstate EXCEPT ![t] = "failed"]
    /\ UNCHANGED <<variant, credentials, bpc, images, queue, calls, future,
                   yielded, results, raised>>
    /\ UNCHANGED <<access, dvars, mvars, evars>>

\* as_completed yields a finished future; result = future.result();
\* results[idx] = result
CollectResult(t) ==
    /\ bpc = "collect"
    /\ t \notin yielded
    /\ tstate[t] = "ok"
    /\ yielded' = yielded \cup {t}
    /\ results' = DictSet(results, t, future[t])
    /\ UNCHANGED <<variant, credentials, bpc, images, queue, tstate, calls,
                   future, raised>>
    /\ UNCHANGED <<access, dvars, mvars, evars>>

\* mutation of CollectFailure: the failure is logged and the loop goes on
CollectFailureSkips(t) ==
    /\ bpc = "collect"
    /\ t \notin yielded
    /\ tstate[t] = "failed"
    /\ yielded' = yielded \cup {t}
    /\ UNCHANGED <<variant, credentials, bpc, images, queue, tstate, calls,
                   future, results, raised>>
    /\ UNCHANGED <<access, dvars, mvars, evars>>

\* future.result() raises: simple, legacy and emo raise an HTTPException
\* naming idx, fantasy re-raises the task's own exception; the with block is
\* left through ThreadPoolExecutor.__exit__
CollectFailure(t) ==
    /\ bpc = "collect"
    /\ t \notin yielded
    /\ tstate[t] = "failed"
    /\ yielded' = yielded \cup {t}
    /\ raised' = [kind |-> "task", idx |-> IF variant = "fantasy" THEN 0 ELSE t]
    /\ bpc' = "shutdown"
    /\ UNCHANGED <<variant, credentials, images, queue, tstate, calls, future,
                   results>>
    /\ UNCHANGED <<access, dvars, mvars, evars>>

\* mutation of ShutdownRaise: the shutdown waits for results that a failed
\* work item never delivers
ShutdownWaitsForResults ==
    /\ bpc = "shutdown"
    /\ \A t \in Tasks : tstate[t] = "ok"
    /\ bpc' = "raised"
    /\ UNCHANGED <<variant, credentials, images, queue, tstate, calls, future,
                   yielded, results, raised>>
    /\ UNCHANGED <<access, dvars, mvars, evars>>

\* mutation of ShutdownRaise: the executor is left without waiting
ShutdownNoWait ==
    /\ bpc = "shutdown"
    /\ bpc' = "raised"
    /\ UNCHANGED <<variant, credentials, images, queue, tstate, calls, future,
                   yielded, results, raised>>
    /\ UNCHANGED <<access, dvars, mvars, evars>>

\* __exit__ is shutdown(wait=True): it returns once every work item has run;
\* the outer except then wraps the exception into an HTTPException(500)
ShutdownRaise ==
    /\ bpc = "shutdown"
    /\ Finished = Tasks
    /\ bpc' = "raised"
    /\ UNCHANGED <<variant, credentials, images, queue, tstate, calls, future,
                   yielded, results, raised>>
    /\ UNCHANGED <<access, dvars, mvars, evars>>

\* the as_completed loop is exhausted: reassemble, leave the with block, return
ReturnImages ==
    /\ bpc = "collect"
    /\ yielded = Tasks
    /\ images' = images \o Reassemble(variant, results)
    /\ bpc' = "returned"
    /\ UNCHANGED <<variant, credentials, queue, tstate, calls, future,
                   yielded, results, raised>>
    /\ UNCHANGED <<access, dvars, mvars, evars>>

Next ==
    \/ CredentialsMissing
    \/ StartBase
    \/ BaseReturns
    \/ BaseFails
    \/ \E t \in Tasks : Submit(t)
    \/ \E t \in Tasks : TaskStart(t)
    \/ \E t \in Tasks : EditReturns(t)
    \/ \E t \in Tasks : EditFails(t)
    \/ \E t \in Tasks : FallbackReturns(t)
    \/ \E t \in Tasks : FallbackFails(t)
    \/ \E t \in Tasks : CollectResult(t)
    \/ \E t \in Tasks : CollectFailure(t)
    \/ ShutdownRaise
    \/ ReturnImages

Spec == Init /\ [][Next]_vars

\* the steps of the thread that runs the batch runner; the base call is
\* bounded by timeout=120 of requests.post
MainStep ==
    \/ CredentialsMissing
    \/ StartBase
    \/ BaseReturns
    \/ BaseFails
    \/ \E t \in Tasks : Submit(t)
    \/ \E t \in Tasks : CollectResult(t)
    \/ \E t \in Tasks : CollectFailure(t)
    \/ ShutdownRaise
    \/ ReturnImages

\* the steps of the pool on work item t: a worker takes it, and each of its
\* calls returns or fails
WorkerStep(t) ==
    \/ TaskStart(t)
    \/ EditReturns(t)
    \/ EditFails(t)
    \/ FallbackReturns(t)
    \/ FallbackFails(t)

\* the batch runner with threads that keep being scheduled and external
\* calls that end
SpecLive ==
    /\ Spec
    /\ WF_vars(MainStep)
    /\ \A t \in Tasks : WF_vars(WorkerStep(t))

(***************************************************************************)
(* Depth layering pipeline (server/depth_anything.py)                      *)
(***************************************************************************)

\* largest grid drawn for analyze_depth_array, and the largest depth value
MaxRows == 2
MaxCols == 3
MaxDepthValue == 2
\* widest single-row "step" grid (low cells followed by high cells)
MaxStepWidth == 20

Frac(n, d) == [num |-> n, den |-> d]

\* depth_array.shape[0], depth_array.shape[1], depth_array.size
Height(g) == Len(g)
Width(g) == IF Len(g) = 0 THEN 0 ELSE Len(g[1])
Size(g) == Height(g) * Width(g)
Cells(g) == (1 .. Height(g)) \X (1 .. Width(g))

Grids ==
    UNION {[1 .. h -> [1 .. w -> 0 .. MaxDepthValue]] :
               h \in 1 .. MaxRows, w \in 1 .. MaxCols}

StepGrids ==
    {<<[c \in 1 .. w |-> IF c <= k THEN 0 ELSE MaxDepthValue]>> :
         w \in 1 .. MaxStepWidth, k \in 0 .. MaxStepWidth}

DepthInputs == Grids \cup StepGrids

\* the grid flattened in row-major order
RECURSIVE Flatten(_)
Flatten(g) == IF g = <<>> THEN <<>> ELSE Head(g) \o Flatten(Tail(g))

RECURSIVE Insert(_, _)
Insert(x, s) ==
    IF s = <<>> THEN <<x>>
    ELSE IF x <= Head(s) THEN <<x>> \o s
    ELSE <<Head(s)>> \o Insert(x, Tail(s))

RECURSIVE SortValues(_)
SortValues(s) == IF s = <<>> THEN <<>> ELSE Insert(Head(s), SortValues(Tail(s)))

RECURSIVE SumSeq(_)
SumSeq(s) == IF s = <<>> THEN 0 ELSE Head(s) + SumSeq(Tail(s))

\* np.percentile(depth_array, q), linear interpolation, in hundredths:
\* virtual index q/100*(n-1) = k + rem/100 into the sorted values
Percentile(g, q) ==
    LET v == SortValues(Flatten(g))
        n == Len(v)
        k == (q * (n - 1)) \div 100
        rem == (q * (n - 1)) % 100
    IN  IF rem = 0 THEN 100 * v[k + 1]
        ELSE 100 * v[k + 1] + rem * (v[k + 2] - v[k + 1])

\* mutation of ForegroundMask: the cut is the upper percentile
ForegroundMaskBelowUpper(g) ==
    {c \in Cells(g) : 100 * g[c[1]][c[2]] < Percentile(g, 70)}

\* mutation of ForegroundMask: inclusive comparison
ForegroundMaskInclusive(g) ==
    {c \in Cells(g) : 100 * g[c[1]][c[2]] <= Percentile(g, 30)}

\* depth_array < percentiles[0]
ForegroundMask(g) ==
    {c \in Cells(g) : 100 * g[c[1]][c[2]] < Percentile(g, 30)}

\* (depth_array >= percentiles[0]) & (depth_array < percentiles[1])
MidgroundMask(g) ==
    {c \in Cells(g) : /\ 100 * g[c[1]][c[2]] >= Percentile(g, 30)
                      /\ 100 * g[c[1]][c[2]] < Percentile(g, 70)}

\* mutation of BackgroundMask: strict comparison
BackgroundMaskStrict(g) ==
    {c \in Cells(g) : 100 * g[c[1]][c[2]] > Percentile(g, 70)}

\* depth_array >= percentiles[1]
BackgroundMask(g) ==
    {c \in Cells(g) : 100 * g[c[1]][c[2]] >= Percentile(g, 70)}

\* mutation of RegionCenter: x taken from the row indices, y from the columns
RegionCenterSwapped(g, mask) ==
    IF mask # {}
    THEN [x |-> Frac(100 * SumSeq([i \in 1 .. Height(g) |->
                        (i - 1) * Cardinality({c \in mask : c[1] = i})]),
                     Cardinality(mask) * Height(g)),
          y |-> Frac(100 * SumSeq([j \in 1 .. Width(g) |->
                        (j - 1) * Cardinality({c \in mask : c[2] = j})]),
                     Cardinality(mask) * Width(g))]
    ELSE [x |-> Frac(50, 1), y |-> Frac(50, 1)]

\* get_region_center(mask): mean of the 0-based indices over the extent, * 100
RegionCenter(g, mask) ==
    IF mask # {}
    THEN [x |-> Frac(100 * SumSeq([j \in 1 .. Width(g) |->
                        (j - 1) * Cardinality({c \in mask : c[2] = j})]),
                     Cardinality(mask) * Width(g)),
          y |-> Frac(100 * SumSeq([i \in 1 .. Height(g) |->
                        (i - 1) * Cardinality({c \in mask : c[1] = i})]),
                     Cardinality(mask) * Height(g))]
    ELSE [x |-> Frac(50, 1), y |-> Frac(50, 1)]

\* mutation of HasPerson: the bounds are inclusive
HasPersonInclusive(count, size) ==
    /\ 20 * count >= size
    /\ 2 * count <= size

\* has_person = 0.05 < foreground_ratio < 0.5, foreground_ratio = count / size
HasPerson(count, size) ==
    /\ 20 * count > size
    /\ 2 * count < size

\* mutation of AnalysisLayers: the foreground layer follows the detection
AnalysisLayersByDetection(has_person) ==
    << [name |-> "background", depth |-> 85,
        content |-> "Far background elements",
        parallax_strength |-> "strong", movement |-> "horizontal",
        scale |-> 130, blur |-> 250, opacity |-> 85, animation_speed |-> 35],
       [name |-> "midground", depth |-> 50,
        content |-> "Middle distance elements",
        parallax_strength |-> "medium", movement |-> "both",
        scale |-> 115, blur |-> 100, opacity |-> 92, animation_speed |-> 28],
       [name |-> "foreground", depth |-> IF has_person THEN 15 ELSE 10,
        content |-> IF has_person THEN "Person/subject detected"
                                  ELSE "Foreground elements",
        parallax_strength |-> "weak", movement |-> "horizontal",
        scale |-> 100, blur |-> 0, opacity |-> 100, animation_speed |-> 22] >>

\* the "layers" list of analyze_depth_array
AnalysisLayers(has_person) ==
    << [name |-> "background", depth |-> 85,
        content |-> "Far background elements",
        parallax_strength |-> "strong", movement |-> "horizontal",
        scale |-> 130, blur |-> 250, opacity |-> 85, animation_speed |-> 35],
       [name |-> "midground", depth |-> 50,
        content |-> "Middle distance elements",
        parallax_strength |-> "medium", movement |-> "both",
        scale |-> 115, blur |-> 100, opacity |-> 92, animation_speed |-> 28],
       [name |-> "foreground", depth |-> 15,
        content |-> IF has_person THEN "Person/subject detected"
                                  ELSE "Foreground elements",
        parallax_strength |-> "weak", movement |-> "horizontal",
        scale |-> 100, blur |-> 0, opacity |-> 100, animation_speed |-> 22] >>

\* mutation of get_default_depth_result: the layers of main.get_default_depth_layers
\* with the background depth of the analysis
get_default_depth_result_drift ==
    [subject_detection |->
        [has_person |-> FALSE, person_position |-> "unknown",
         person_description |-> "No depth analysis available",
         person_bounds |-> [x |-> Frac(50, 1), y |-> Frac(50, 1),
                            width |-> 30, height |-> 40]],
     layers |->
        << [name |-> "background", depth |-> 85,
            parallax_strength |-> "strong", movement |-> "horizontal",
            scale |-> 130, blur |-> 300, opacity |-> 80, animation_speed |-> 30],
           [name |-> "midground", depth |-> 50,
            parallax_strength |-> "medium", movement |-> "both",
            scale |-> 110, blur |-> 100, opacity |-> 90, animation_speed |-> 25],
           [name |-> "foreground", depth |-> 10,
            parallax_strength |-> "weak", movement |-> "horizontal",
            scale |-> 100, blur |-> 0, opacity |-> 100, animation_speed |-> 20] >>]

get_default_depth_result ==
    [subject_detection |->
        [has_person |-> FALSE, person_position |-> "unknown",
         person_description |-> "No depth analysis available",
         person_bounds |-> [x |-> Frac(50, 1), y |-> Frac(50, 1),
                            width |-> 30, height |-> 40]],
     layers |->
        << [name |-> "background", depth |-> 90,
            parallax_strength |-> "strong", movement |-> "horizontal",
            scale |-> 130, blur |-> 300, opacity |-> 80, animation_speed |-> 30],
           [name |-> "midground", depth |-> 50,
            parallax_strength |-> "medium", movement |-> "both",
            scale |-> 110, blur |-> 100, opacity |-> 90, animation_speed |-> 25],
           [name |-> "foreground", depth |-> 10,
            parallax_strength |-> "weak", movement |-> "horizontal",
            scale |-> 100, blur |-> 0, opacity |-> 100, animation_speed |-> 20] >>]

\* np.min / np.percentile raise on an array without elements
Unusable(g) == Size(g) = 0

\* the dict built by the try block of analyze_depth_array
Analysis(g) ==
    LET v == Flatten(g)
        fg == ForegroundMask(g)
        center == RegionCenter(g, fg)
        has_person == HasPerson(Cardinality(fg), Size(g))
    IN  [subject_detection |->
            [has_person |-> has_person,
             person_position |-> IF has_person THEN "foreground" ELSE "unknown",
             person_description |->
                 "Detected subject in foreground based on depth map",
             person_bounds |->
                 [x |-> Frac(center.x.num - 20 * center.x.den, center.x.den),
                  y |-> Frac(center.y.num - 30 * center.y.den, center.y.den),
                  width |-> 40, height |-> 60],
             confidence |-> Frac(Cardinality(fg), Size(g))],
         layers |-> AnalysisLayers(has_person),
         depth_statistics |->
            [min |-> SortValues(v)[1], max |-> SortValues(v)[Len(v)],
             mean |-> Frac(SumSeq(v), Len(v)),
             foreground_ratio |-> Frac(Cardinality(fg), Size(g))]]

\* mutation of analyze_depth_array: the error of the try block escapes
analyze_depth_array_reraises(g) ==
    IF Unusable(g) THEN [error |-> "ValueError"] ELSE Analysis(g)

\* analyze_depth_array: the analysis, or the default when anything raises
analyze_depth_array(g) ==
    IF Unusable(g) THEN get_default_depth_result ELSE Analysis(g)

InitDepth ==
    /\ EndpointIdle
    /\ use_local \in BOOLEAN
    /\ dpc = "start"
    /\ dfail = "none"
    /\ depth_array = <<>>
    /\ depth_result = <<>>
    /\ ParallaxIdle
    /\ BatchIdle
    /\ MatteIdle

\* estimate_depth_hf_api: requests.post raises (connection error, timeout)
HfRequestRaises ==
    /\ dpc = "start" /\ ~use_local
    /\ dpc' = "done"
    /\ dfail' = "request_raised"
    /\ depth_result' = get_default_depth_result
    /\ UNCHANGED <<use_local, depth_array>>
    /\ UNCHANGED <<pvars, bvars, mvars, evars>>

\* estimate_depth_hf_api: response.status_code != 200
HfStatusNot200 ==
    /\ dpc = "start" /\ ~use_local
    /\ dpc' = "done"
    /\ dfail' = "status_not_200"
    /\ depth_result' = get_default_depth_result
    /\ UNCHANGED <<use_local, depth_array>>
    /\ UNCHANGED <<pvars, bvars, mvars, evars>>

\* estimate_depth_hf_api: status 200 but response.json() raises
HfBadJson ==
    /\ dpc = "start" /\ ~use_local
    /\ dpc' = "done"
    /\ dfail' = "bad_json"
    /\ depth_result' = get_default_depth_result
    /\ UNCHANGED <<use_local, depth_array>>
    /\ UNCHANGED <<pvars, bvars, mvars, evars>>

\* analyze_depth_map: b64decode / Image.open / convert raises
HfUndecodable ==
    /\ dpc = "start" /\ ~use_local
    /\ dpc' = "done"
    /\ dfail' = "undecodable"
    /\ depth_result' = get_default_depth_result
    /\ UNCHANGED <<use_local, depth_array>>
    /\ UNCHANGED <<pvars, bvars, mvars, evars>>

\* analyze_depth_map: the depth map decodes to an 8-bit grid, which is analysed
HfAnalyze ==
    /\ dpc = "start" /\ ~use_local
    /\ \E g \in DepthInputs :
           /\ depth_array' = g
           /\ depth_result' = analyze_depth_array(g)
    /\ dpc' = "done"
    /\ UNCHANGED <<use_local, dfail>>
    /\ UNCHANGED <<pvars, bvars, mvars, evars>>

\* estimate_depth_local: transformers is not installed
LocalImportError ==
    /\ dpc = "start" /\ use_local
    /\ dpc' = "done"
    /\ dfail' = "import_error"
    /\ depth_result' = get_default_depth_result
    /\ UNCHANGED <<use_local, depth_array>>
    /\ UNCHANGED <<pvars, bvars, mvars, evars>>

\* estimate_depth_local: pipeline(), Image.open or the estimator raises
LocalRaises ==
    /\ dpc = "start" /\ use_local
    /\ dpc' = "done"
    /\ dfail' = "local_raised"
    /\ depth_result' = get_default_depth_result
    /\ UNCHANGED <<use_local, depth_array>>
    /\ UNCHANGED <<pvars, bvars, mvars, evars>>

\* estimate_depth_local: analyze_depth_array(depth["depth"]); an estimator
\* output without elements is possible on this path
LocalAnalyze ==
    /\ dpc = "start" /\ use_local
    /\ \E g \in DepthInputs \cup {<<>>, << <<>> >>} :
           /\ depth_array' = g
           /\ depth_result' = analyze_depth_array(g)
           /\ dfail' = IF Unusable(g) THEN "array_error" ELSE "none"
    /\ dpc' = "done"
    /\ UNCHANGED <<use_local>>
    /\ UNCHANGED <<pvars, bvars, mvars, evars>>

NextDepth ==
    \/ HfRequestRaises
    \/ HfStatusNot200
    \/ HfBadJson
    \/ HfUndecodable
    \/ HfAnalyze
    \/ LocalImportError
    \/ LocalRaises
    \/ LocalAnalyze

SpecDepth == InitDepth /\ [][NextDepth]_vars

(***************************************************************************)
(* Parallax configuration (server/main.py, generate_parallax_config)       *)
(***************************************************************************)

\* longest "layers" list drawn from the sample layers
MaxLayers == 2

FracEq(a, b) == a.num * b.den = b.num * a.den
FracLess(a, b) == a.num * b.den < b.num * a.den

SampleLayers ==
    [name : {"background", "foreground"},
     depth : {0, 85, 100},
     movement : {"horizontal", "vertical", "both", "static"},
     animation_speed : {0, 35}]

\* one layer of every depth
SingleLayerInputs ==
    {<< [name |-> "midground", depth |-> d, movement |-> m,
         animation_speed |-> 28] >> : d \in 0 .. 100, m \in {"horizontal", "both"}}

\* the fields generate_parallax_config reads from a layer of the pipeline
LayerInput(l) ==
    [name |-> l.name, depth |-> l.depth, movement |-> l.movement,
     animation_speed |-> l.animation_speed]

PipelineLayers ==
    { [j \in 1 .. 3 |-> LayerInput(AnalysisLayers(TRUE)[j])],
      [j \in 1 .. 3 |-> LayerInput(get_default_depth_result.layers[j])] }

\* two layers of neighbouring depths
AdjacentDepthInputs ==
    {<< [name |-> "background", depth |-> d + 1, movement |-> m,
         animation_speed |-> 35],
        [name |-> "foreground", depth |-> d, movement |-> "horizontal",
         animation_speed |-> 22] >> : d \in 0 .. 99, m \in {"horizontal", "both"}}

ParallaxInputs ==
    UNION {[1 .. n -> SampleLayers] : n \in 0 .. MaxLayers}
        \cup SingleLayerInputs \cup AdjacentDepthInputs \cup PipelineLayers

\* mutation of LayerAnimations: the vertical test is an elif of the horizontal
LayerAnimationsElif(layer) ==
    LET depth == layer.depth
        speed == layer.animation_speed
        tx == IF layer.movement \in {"horizontal", "both"}
              THEN << [type |-> "translateX", amplitude |-> Frac(30 * depth, 100),
                       frequency |-> Frac(1, speed), phase |-> 0] >>
              ELSE <<>>
        ty == IF layer.movement \in {"vertical"}
              THEN << [type |-> "translateY", amplitude |-> Frac(20 * depth, 100),
                       frequency |-> Frac(10, 12 * speed), phase |-> 25] >>
              ELSE <<>>
    IN  tx \o ty \o
        << [type |-> "scale", amplitude |-> Frac(5 * (100 - depth), 10000),
            frequency |-> Frac(1, 2 * speed), phase |-> 50] >>

\* mutation of LayerAnimations: the scale amplitude grows with the depth
LayerAnimationsShallow(layer) ==
    LET depth == layer.depth
        speed == layer.animation_speed
        tx == IF layer.movement \in {"horizontal", "both"}
              THEN << [type |-> "translateX", amplitude |-> Frac(30 * depth, 100),
                       frequency |-> Frac(1, speed), phase |-> 0] >>
              ELSE <<>>
        ty == IF layer.movement \in {"vertical", "both"}
              THEN << [type |-> "translateY", amplitude |-> Frac(20 * depth, 100),
                       frequency |-> Frac(10, 12 * speed), phase |-> 25] >>
              ELSE <<>>
    IN  tx \o ty \o
        << [type |-> "scale", amplitude |-> Frac(5 * depth, 10000),
            frequency |-> Frac(1, 2 * speed), phase |-> 50] >>

\* the animations list built for one layer; depth_factor = depth / 100,
\* phases in hundredths
LayerAnimations(layer) ==
    LET depth == layer.depth
        speed == layer.animation_speed
        tx == IF layer.movement \in {"horizontal", "both"}
              THEN << [type |-> "translateX", amplitude |-> Frac(30 * depth, 100),
                       frequency |-> Frac(1, speed), phase |-> 0] >>
              ELSE <<>>
        ty == IF layer.movement \in {"vertical", "both"}
              THEN << [type |-> "translateY", amplitude |-> Frac(20 * depth, 100),
                       frequency |-> Frac(10, 12 * speed), phase |-> 25] >>
              ELSE <<>>
    IN  tx \o ty \o
        << [type |-> "scale", amplitude |-> Frac(5 * (100 - depth), 10000),
            frequency |-> Frac(1, 2 * speed), phase |-> 50] >>

\* the config dict generate_parallax_config returns
ParallaxConfig(layers) ==
    [layers |-> [j \in 1 .. Len(layers) |->
                    [id |-> layers[j].name, depth |-> layers[j].depth,
                     animations |-> LayerAnimations(layers[j])]],
     animation_type |-> "time-based",
     global_speed |-> 100]

\* 1 / layer["animation_speed"] divides by zero
DividesByZero(layers) ==
    \E j \in 1 .. Len(layers) : layers[j].animation_speed = 0

InitParallax ==
    /\ EndpointIdle
    /\ ppc = "called"
    /\ depth_layers \in ParallaxInputs
    /\ parallax_config = <<>>
    /\ use_local = FALSE
    /\ dpc = "idle"
    /\ dfail = "none"
    /\ depth_array = <<>>
    /\ depth_result = <<>>
    /\ BatchIdle
    /\ MatteIdle

\* the loop over depth_layers.get("layers", []) runs to the end
ParallaxReturns ==
    /\ ppc = "called"
    /\ ~DividesByZero(depth_layers)
    /\ parallax_config' = ParallaxConfig(depth_layers)
    /\ ppc' = "returned"
    /\ UNCHANGED <<depth_layers, use_local, dpc, dfail, depth_array, depth_result>>
    /\ UNCHANGED <<bvars, mvars, evars>>

\* a layer with animation_speed 0 raises ZeroDivisionError
ParallaxRaises ==
    /\ ppc = "called"
    /\ DividesByZero(depth_layers)
    /\ ppc' = "raised"
    /\ UNCHANGED <<depth_layers, parallax_config, use_local, dpc, dfail,
                   depth_array, depth_result>>
    /\ UNCHANGED <<bvars, mvars, evars>>

NextParallax ==
    \/ ParallaxReturns
    \/ ParallaxRaises

SpecParallax == InitParallax /\ [][NextParallax]_vars

(***************************************************************************)
(* Matte cleanup (server/main.py, remove_green_background)                 *)
(***************************************************************************)

\* largest image drawn from the sample pixels
MaxImgRows == 2
MaxImgCols == 2

\* a pixel is <<r, g, b, a>>; an image is a sequence of rows of pixels
SamplePixels ==
    { <<0, 255, 0, 255>>,      \* opaque, strongly green
      <<0, 255, 0, 250>>,      \* nearly opaque, strongly green
      <<41, 200, 90, 100>>,    \* halo: half transparent green, r + b odd
      <<0, 255, 0, 10>>,       \* nearly transparent green
      <<100, 130, 100, 255>>,  \* opaque, g > 1.2*r but not 1.5*r
      <<60, 120, 60, 255>>,    \* opaque, g > 1.5*r but g <= 150
      <<200, 100, 50, 255>>,   \* opaque, not green
      <<0, 0, 0, 0>> }         \* transparent

SampleColors ==
    { <<0, 255, 0>>, <<41, 200, 90>>, <<100, 130, 100>>, <<60, 120, 60>>,
      <<200, 100, 50>> }

SampleImages ==
    UNION {[1 .. h -> [1 .. w -> SamplePixels]] :
               h \in 1 .. MaxImgRows, w \in 1 .. MaxImgCols}

\* one pixel of every alpha value
SinglePixelImages ==
    {<< << <<c[1], c[2], c[3], a>> >> >> : c \in SampleColors, a \in 0 .. 255}

MatteInputs == SampleImages \cup SinglePixelImages

\* img.size
ImgHeight(img) == Len(img)
ImgWidth(img) == Len(img[1])

\* g > r * 1.2 and g > b * 1.2 (exact on 8-bit channels)
GreenDominant(p) == 5 * p[2] > 6 * p[1] /\ 5 * p[2] > 6 * p[3]

\* g > r * 1.5 and g > b * 1.5 and g > 150
StronglyGreen(p) == 2 * p[2] > 3 * p[1] /\ 2 * p[2] > 3 * p[3] /\ p[2] > 150

\* mutation of Desaturated: the average is written to blue as well
DesaturatedGrey(p) ==
    <<p[1], (p[1] + p[3]) \div 2, (p[1] + p[3]) \div 2, p[4]>>

\* new_g = int((r + b) / 2)
Desaturated(p) == <<p[1], (p[1] + p[3]) \div 2, p[3], p[4]>>

\* the in-bounds 8-neighbours of (x, y), 1-based
Neighbours(img, x, y) ==
    {n \in ((x - 1) .. (x + 1)) \X ((y - 1) .. (y + 1)) :
        /\ n # <<x, y>>
        /\ 1 <= n[1] /\ n[1] <= ImgWidth(img)
        /\ 1 <= n[2] /\ n[2] <= ImgHeight(img)}

\* mutation of IsEdge: a pixel on the image border counts as an edge
IsEdgeAtBorder(buf, x, y) ==
    \/ \E n \in Neighbours(buf, x, y) : buf[n[2]][n[1]][4] < 255
    \/ Cardinality(Neighbours(buf, x, y)) < 8

\* is_edge: some in-bounds neighbour of the working buffer has na < 255
IsEdge(buf, x, y) ==
    \E n \in Neighbours(buf, x, y) : buf[n[2]][n[1]][4] < 255

\* mutation of CleanedPixel: the lower snap threshold is inclusive
CleanedPixelInclusiveSnap(buf, x, y) ==
    LET p == buf[y][x]
        a == p[4]
        corrected == IF GreenDominant(p) THEN Desaturated(p) ELSE p
    IN  IF 0 < a /\ a < 255
        THEN IF a <= 30 THEN <<p[1], p[2], p[3], 0>>
             ELSE IF a > 225 THEN <<p[1], p[2], p[3], 255>>
             ELSE corrected
        ELSE IF a = 255 /\ StronglyGreen(p) /\ IsEdge(buf, x, y)
        THEN Desaturated(p)
        ELSE p

\* the body of the loop for one (x, y): the value left in pixels[x, y]
CleanedPixel(buf, x, y) ==
    LET p == buf[y][x]
        a == p[4]
        corrected == IF GreenDominant(p) THEN Desaturated(p) ELSE p
    IN  IF 0 < a /\ a < 255
        THEN IF a < 30 THEN <<p[1], p[2], p[3], 0>>
             ELSE IF a > 225 THEN <<p[1], p[2], p[3], 255>>
             ELSE corrected
        ELSE IF a = 255 /\ StronglyGreen(p) /\ IsEdge(buf, x, y)
        THEN Desaturated(p)
        ELSE p

\* for y in range(height): for x in range(width): ..., in place, from the i-th
\* pixel in raster order on
RECURSIVE PassFrom(_, _)
PassFrom(buf, i) ==
    IF i >= ImgWidth(buf) * ImgHeight(buf) THEN buf
    ELSE LET x == (i % ImgWidth(buf)) + 1
             y == (i \div ImgWidth(buf)) + 1
         IN  PassFrom([buf EXCEPT ![y][x] = CleanedPixel(buf, x, y)], i + 1)

\* the whole cleanup loop of remove_green_background
CleanupPass(img) == PassFrom(img, 0)

InitMatte ==
    /\ EndpointIdle
    /\ mpc = "pass"
    /\ image_bytes = "none"
    /\ matted \in MatteInputs
    /\ pixels = matted
    /\ first_pass = <<>>
    /\ passes = 0
    /\ degraded = 0
    /\ returned = [kind |-> "none"]
    /\ BatchIdle
    /\ DepthIdle

\* the cleanup loop runs over the decoded matte
FirstPass ==
    /\ mpc = "pass"
    /\ passes = 0
    /\ pixels' = CleanupPass(pixels)
    /\ first_pass' = pixels'
    /\ passes' = 1
    /\ UNCHANGED <<mpc, image_bytes, matted, degraded, returned>>
    /\ UNCHANGED <<bvars, dvars, evars>>

\* the cleanup loop runs again over its own output
SecondPass ==
    /\ mpc = "pass"
    /\ passes = 1
    /\ pixels' = CleanupPass(pixels)
    /\ passes' = 2
    /\ UNCHANGED <<mpc, image_bytes, matted, first_pass, degraded, returned>>
    /\ UNCHANGED <<bvars, dvars, evars>>

NextMatte ==
    \/ FirstPass
    \/ SecondPass

SpecMatte == InitMatte /\ [][NextMatte]_vars

InputImages == {"portrait_a", "portrait_b"}

InitRemove ==
    /\ EndpointIdle
    /\ mpc = "start"
    /\ image_bytes \in InputImages
    /\ matted = <<>>
    /\ pixels = <<>>
    /\ first_pass = <<>>
    /\ passes = 0
    /\ degraded = 0
    /\ returned = [kind |-> "none"]
    /\ BatchIdle
    /\ DepthIdle

\* remove(image_bytes, alpha_matting=True, ...) returns and the result decodes
MattingReturns ==
    /\ mpc = "start"
    /\ \E img \in SampleImages :
           /\ matted' = img
           /\ pixels' = img
    /\ mpc' = "loaded"
    /\ UNCHANGED <<image_bytes, first_pass, passes, degraded, returned>>
    /\ UNCHANGED <<bvars, dvars, evars>>

\* remove(...) raises, or Image.open / convert raises on its output
MattingFails ==
    /\ mpc = "start"
    /\ mpc' = "fallback"
    /\ degraded' = 1
    /\ UNCHANGED <<image_bytes, matted, pixels, first_pass, passes, returned>>
    /\ UNCHANGED <<bvars, dvars, evars>>

\* the cleanup loop, then img.save and return buffer.getvalue()
CleanupAndSave ==
    /\ mpc = "loaded"
    /\ pixels' = CleanupPass(pixels)
    /\ first_pass' = pixels'
    /\ passes' = 1
    /\ returned' = [kind |-> "cleaned", data |-> pixels']
    /\ mpc' = "done"
    /\ UNCHANGED <<image_bytes, matted, degraded>>
    /\ UNCHANGED <<bvars, dvars, evars>>

\* the cleanup loop ran but img.save raises
SaveFails ==
    /\ mpc = "loaded"
    /\ pixels' = CleanupPass(pixels)
    /\ first_pass' = pixels'
    /\ passes' = 1
    /\ mpc' = "fallback"
    /\ degraded' = 1
    /\ UNCHANGED <<image_bytes, matted, returned>>
    /\ UNCHANGED <<bvars, dvars, evars>>

\* except Exception: return remove(image_bytes)
BasicRemovalReturns ==
    /\ mpc = "fallback"
    /\ returned' = [kind |-> "basic", data |-> image_bytes]
    /\ mpc' = "done"
    /\ UNCHANGED <<image_bytes, matted, pixels, first_pass, passes, degraded>>
    /\ UNCHANGED <<bvars, dvars, evars>>

\* mutation of BasicRemovalFails: the second exception leaves the function
BasicRemovalEscapes ==
    /\ mpc = "fallback"
    /\ degraded' = 2
    /\ mpc' = "raised"
    /\ UNCHANGED <<image_bytes, matted, pixels, first_pass, passes, returned>>
    /\ UNCHANGED <<bvars, dvars, evars>>

\* except Exception as fallback_error: return image_bytes
BasicRemovalFails ==
    /\ mpc = "fallback"
    /\ degraded' = 2
    /\ returned' = [kind |-> "original", data |-> image_bytes]
    /\ mpc' = "done"
    /\ UNCHANGED <<image_bytes, matted, pixels, first_pass, passes>>
    /\ UNCHANGED <<bvars, dvars, evars>>

NextRemove ==
    \/ MattingReturns
    \/ MattingFails
    \/ CleanupAndSave
    \/ SaveFails
    \/ BasicRemovalReturns
    \/ BasicRemovalFails

SpecRemove == InitRemove /\ [][NextRemove]_vars

(***************************************************************************)
(* Endpoint /api/generate/simple (server/main.py, generate_images_simple)  *)
(***************************************************************************)

Modes == {"normal", "emo", "fantasy"}
ReturnTypes == {"base64_list", "zip"}

\* a SimpleGenerateRequest: `character` says whether request.character is
\* set, `mode_character` whether the field the mode asks for is set
\* (character, emo_character or fantasy_character)
Requests ==
    {r \in [mode : Modes, return_type : ReturnTypes, character : BOOLEAN,
            mode_character : BOOLEAN] :
        r.mode = "normal" => r.mode_character = r.character}

\* the list a runner returns: the bytes of expression 1 .. NumExpressions
RunnerImages == [j \in 1 .. NumExpressions |-> [expr |-> j, form |-> "generated"]]

\* what remove_green_background returns for an image: the cleaned matte, the
\* basic removal, or the image itself
Removals == {"cleaned", "basic", "original"}
Removed(img, form) ==
    IF form = "original" THEN img ELSE [expr |-> img.expr, form |-> form]

\* base64.b64encode(img).decode("utf-8")
Base64(img) == [b64 |-> img]

\* the archive written for processed_images: one entry per image, in order,
\* named <character_id>_expr<i>.png
ZipOf(imgs) ==
    [j \in 1 .. Len(imgs) |-> [filename |-> j, data |-> imgs[j]]]

InitEndpoint ==
    /\ epc = "called"
    /\ request \in Requests
    /\ generated = <<>>
    /\ processed_images = <<>>
    /\ response = [kind |-> "none"]
    /\ variant = "simple"
    /\ credentials \in BOOLEAN
    /\ bpc = "idle"
    /\ images = <<>>
    /\ queue = <<>>
    /\ tstate = [t \in Tasks |-> "new"]
    /\ calls = [t \in Tasks |-> <<>>]
    /\ future = [t \in Tasks |-> NoImage]
    /\ yielded = {}
    /\ results = <<>>
    /\ raised = NoError
    /\ access = {}
    /\ DepthIdle
    /\ MatteIdle

\* if not credentials: raise HTTPException(500)
EndpointNoCredentials ==
    /\ epc = "called"
    /\ ~credentials
    /\ epc' = "done"
    /\ response' = [kind |-> "error", status |-> 500]
    /\ UNCHANGED <<request, generated, processed_images>>
    /\ UNCHANGED <<bvars, dvars, mvars>>

\* the field the mode asks for is missing: raise HTTPException(422)
EndpointInvalid ==
    /\ epc = "called"
    /\ credentials
    /\ ~request.mode_character
    /\ epc' = "done"
    /\ response' = [kind |-> "error", status |-> 422]
    /\ UNCHANGED <<request, generated, processed_images>>
    /\ UNCHANGED <<bvars, dvars, mvars>>

\* the runner of the mode raises: wrapped into HTTPException(500)
RunnerRaises ==
    /\ epc = "called"
    /\ credentials
    /\ request.mode_character
    /\ epc' = "done"
    /\ response' = [kind |-> "error", status |-> 500]
    /\ UNCHANGED <<request, generated, processed_images>>
    /\ UNCHANGED <<bvars, dvars, mvars>>

\* the runner of the mode returns its images; emo and fantasy skip the
\* background removal (processed_images = images)
RunnerReturns ==
    /\ epc = "called"
    /\ credentials
    /\ request.mode_character
    /\ generated' = RunnerImages
    /\ processed_images' =
           IF request.mode = "normal" THEN <<>> ELSE RunnerImages
    /\ epc' = IF request.mode = "normal" THEN "removing" ELSE "respond"
    /\ UNCHANGED <<request, response>>
    /\ UNCHANGED <<bvars, dvars, mvars>>

\* one turn of the removal loop: processed_images.append(
\* remove_green_background(img_bytes)); the loop ends after the last image
RemoveBackground ==
    /\ epc = "removing"
    /\ \E form \in Removals :
           processed_images' =
               Append(processed_images,
                      Removed(generated[Len(processed_images) + 1], form))
    /\ epc' = IF Len(processed_images) + 1 = Len(generated)
              THEN "respond" ELSE "removing"
    /\ UNCHANGED <<request, generated, response>>
    /\ UNCHANGED <<bvars, dvars, mvars>>

\* return_type == "base64_list": the encoded images and a message
RespondBase64 ==
    /\ epc = "respond"
    /\ request.return_type = "base64_list"
    /\ response' = [kind |-> "base64_list",
                    images |-> [j \in 1 .. Len(processed_images) |->
                                   Base64(processed_images[j])]]
    /\ epc' = "done"
    /\ UNCHANGED <<request, generated, processed_images>>
    /\ UNCHANGED <<bvars, dvars, mvars>>

\* the zip branch: file names are built from request.character.character_id
RespondZip ==
    /\ epc = "respond"
    /\ request.return_type # "base64_list"
    /\ request.character
    /\ response' = [kind |-> "zip", entries |-> ZipOf(processed_images)]
    /\ epc' = "done"
    /\ UNCHANGED <<request, generated, processed_images>>
    /\ UNCHANGED <<bvars, dvars, mvars>>

\* the zip branch with request.character None: AttributeError, caught by
\* the outer except and raised as HTTPException(500, "Generation failed")
ZipRaises ==
    /\ epc = "respond"
    /\ request.return_type # "base64_list"
    /\ ~request.character
    /\ response' = [kind |-> "error", status |-> 500]
    /\ epc' = "done"
    /\ UNCHANGED <<request, generated, processed_images>>
    /\ UNCHANGED <<bvars, dvars, mvars>>

NextEndpoint ==
    \/ EndpointNoCredentials
    \/ EndpointInvalid
    \/ RunnerRaises
    \/ RunnerReturns
    \/ RemoveBackground
    \/ RespondBase64
    \/ RespondZip
    \/ ZipRaises

SpecEndpoint == InitEndpoint /\ [][NextEndpoint]_vars

(***************************************************************************)
(* Properties of the batch runner (checked under Spec)                     *)
(***************************************************************************)

\* C1: whenever the runner returns, the list has exactly NumExpressions
\* images, entry 0 is the image of the base call and entry i is the image
\* task i's future resolved to, whatever the completion order was.
C1_OrderedResult ==
    bpc = "returned" =>
        /\ Len(images) = NumExpressions
        /\ images[1] = BaseImage
        /\ \A t \in Tasks : /\ future[t] # NoImage
                            /\ images[t + 1] = future[t]

\* a returned batch in which task 2 failed its edit call and its fallback
\* was the last future to be collected
C1_Witness ==
    /\ bpc = "returned"
    /\ future[2] = Image(2, "fallback")
    /\ Len(results) = NumExpressions - 1
    /\ results[Len(results)].key = 2

\* the edit call of task t has failed
EditFailed(t) ==
    \/ tstate[t] \in {"fallback", "failed"}
    \/ tstate[t] = "ok" /\ future[t].via = "fallback"

\* C2: every task first issues an edit call carrying the base image; it
\* issues one fallback call without base image exactly when the edit call
\* failed; a successful fallback resolves the task to the fallback's image, a
\* failed fallback fails the task; no task issues more than two calls.
C2_EditThenOneFallback ==
    \A t \in Tasks :
        /\ Len(calls[t]) <= 2
        /\ tstate[t] \in {"new", "queued"} <=> calls[t] = <<>>
        /\ Len(calls[t]) >= 1 => calls[t][1] = GeminiCall("edit", BaseImage)
        /\ Len(calls[t]) = 2 <=> EditFailed(t)
        /\ Len(calls[t]) = 2 => calls[t][2] = GeminiCall("fallback", NoImage)
        /\ tstate[t] = "ok" /\ EditFailed(t) => future[t] = Image(t, "fallback")
        /\ tstate[t] = "ok" /\ ~EditFailed(t) => future[t] = Image(t, "edit")
        /\ tstate[t] = "failed" => future[t] = NoImage

\* one task succeeded on its fallback while another failed both of its calls
C2_Witness ==
    \E t, u \in Tasks :
        /\ tstate[t] = "ok" /\ Len(calls[t]) = 2
        /\ tstate[u] = "failed" /\ Len(calls[u]) = 2

\* C3: when a task has failed both calls the runner never returns a list: it
\* ends by raising, and every list it does return is complete.
C3_NoPartialResult ==
    /\ bpc = "returned" =>
           /\ Len(images) = NumExpressions
           /\ \A t \in Tasks : tstate[t] = "ok"
    /\ (bpc \in {"returned", "raised"} /\ \E t \in Tasks : tstate[t] = "failed")
           => /\ bpc = "raised"
              /\ raised.kind = "task"

\* the runner raised for an exhausted task while holding results of others
C3_Witness ==
    /\ bpc = "raised"
    /\ raised.kind = "task"
    /\ Len(results) >= 1
    /\ \E t \in Tasks : tstate[t] = "failed"

(***************************************************************************)
(* Properties of the depth layering pipeline (checked under SpecDepth)     *)
(***************************************************************************)

\* analyze_depth_array ran its try block to the end on depth_array
Analysed == dpc = "done" /\ dfail = "none" /\ ~Unusable(depth_array)

\* C4: for every non-empty grid the foreground, midground and background
\* masks are pairwise disjoint and every cell lies in exactly one of them, so
\* the three pixel counts add up to the number of cells.
C4_RegionsPartition ==
    Analysed =>
        LET F == ForegroundMask(depth_array)
            M == MidgroundMask(depth_array)
            B == BackgroundMask(depth_array)
        IN  /\ F \cap M = {} /\ F \cap B = {} /\ M \cap B = {}
            /\ F \cup M \cup B = Cells(depth_array)
            /\ Cardinality(F) + Cardinality(M) + Cardinality(B)
                   = Size(depth_array)

\* an analysed grid with all three bands populated
C4_Witness ==
    /\ Analysed
    /\ ForegroundMask(depth_array) # {}
    /\ MidgroundMask(depth_array) # {}
    /\ BackgroundMask(depth_array) # {}

\* C5: has_person holds exactly when 0.05 < count/size < 0.5 for the
\* foreground cell count; ratios of exactly 0.05 and 0.5 give false; and
\* person_position is "foreground" exactly when has_person, else "unknown".
C5_HasPersonRule ==
    Analysed =>
        LET sd == depth_result.subject_detection
            count == Cardinality(ForegroundMask(depth_array))
            size == Size(depth_array)
        IN  /\ sd.has_person <=> (20 * count > size /\ 2 * count < size)
            /\ 20 * count = size => ~sd.has_person
            /\ 2 * count = size => ~sd.has_person
            /\ sd.has_person => sd.person_position = "foreground"
            /\ ~sd.has_person => sd.person_position = "unknown"

\* an analysed grid whose foreground ratio is exactly 0.05
C5_Witness ==
    /\ Analysed
    /\ 20 * Cardinality(ForegroundMask(depth_array)) = Size(depth_array)
    /\ depth_result.subject_detection.person_position = "unknown"

EstimatorFailures ==
    {"request_raised", "status_not_200", "bad_json", "undecodable",
     "import_error", "local_raised"}

\* the fields of a layer that C6 and C7 list
LayerParams(l) ==
    <<l.name, l.depth, l.parallax_strength, l.scale, l.blur, l.opacity,
      l.animation_speed>>

\* C6: whenever the estimator call fails (request raises, status is not 200,
\* the depth map does not decode) the pipeline ends without raising and
\* returns the documented default layers.
C6_FailureGivesDefault ==
    dfail \in EstimatorFailures =>
        /\ dpc = "done"
        /\ Len(depth_result.layers) = 3
        /\ LayerParams(depth_result.layers[1])
               = <<"background", 90, "strong", 130, 300, 80, 30>>
        /\ LayerParams(depth_result.layers[2])
               = <<"midground", 50, "medium", 110, 100, 90, 25>>
        /\ LayerParams(depth_result.layers[3])
               = <<"foreground", 10, "weak", 100, 0, 100, 20>>

\* the remote estimator answered with a status other than 200
C6_Witness ==
    /\ dfail = "status_not_200"
    /\ ~use_local
    /\ depth_result # <<>>

\* C7: every returned result has exactly the layers background, midground,
\* foreground in this order; in an analysis result the layer parameters are
\* the fixed constants whatever the grid is, and only the content text of the
\* foreground layer follows the detection.
C7_ThreeFixedLayers ==
    dpc = "done" =>
        /\ Len(depth_result.layers) = 3
        /\ depth_result.layers[1].name = "background"
        /\ depth_result.layers[2].name = "midground"
        /\ depth_result.layers[3].name = "foreground"
        /\ Analysed =>
              /\ LayerParams(depth_result.layers[1])
                     = <<"background", 85, "strong", 130, 250, 85, 35>>
              /\ LayerParams(depth_result.layers[2])
                     = <<"midground", 50, "medium", 115, 100, 92, 28>>
              /\ LayerParams(depth_result.layers[3])
                     = <<"foreground", 15, "weak", 100, 0, 100, 22>>
              /\ depth_result.layers[1].movement = "horizontal"
              /\ depth_result.layers[2].movement = "both"
              /\ depth_result.layers[3].movement = "horizontal"
              /\ depth_result.layers[1].content = "Far background elements"
              /\ depth_result.layers[2].content = "Middle distance elements"

\* an analysis without detected subject (the case the grid could influence)
C7_Witness ==
    /\ Analysed
    /\ ~depth_result.subject_detection.has_person
    /\ depth_result.layers[3].content = "Foreground elements"
    /\ ForegroundMask(depth_array) # {}

(***************************************************************************)
(* Properties of the matte cleanup (checked under SpecMatte, SpecRemove)   *)
(***************************************************************************)

ImgCells(img) == (1 .. ImgWidth(img)) \X (1 .. ImgHeight(img))

\* C8: the pass leaves a pixel unchanged when its alpha is 0, or its alpha is
\* 255 and it is not strongly green (g > 1.5*r, g > 1.5*b, g > 150), or its
\* alpha is 255 and no in-bounds 8-neighbour of the input has alpha < 255; a
\* fully opaque image without green-dominant pixel comes back identical.
C8_UntouchedPixels ==
    passes >= 1 =>
        /\ ImgHeight(first_pass) = ImgHeight(matted)
        /\ ImgWidth(first_pass) = ImgWidth(matted)
        /\ \A c \in ImgCells(matted) :
              LET p == matted[c[2]][c[1]]
              IN  (\/ p[4] = 0
                   \/ /\ p[4] = 255
                      /\ ~(2 * p[2] > 3 * p[1] /\ 2 * p[2] > 3 * p[3] /\ p[2] > 150)
                   \/ /\ p[4] = 255
                      /\ \A n \in ImgCells(matted) :
                            (/\ n # c
                             /\ n[1] - c[1] \in -1 .. 1
                             /\ n[2] - c[2] \in -1 .. 1)
                                => matted[n[2]][n[1]][4] = 255)
                  => first_pass[c[2]][c[1]] = p
        /\ (\A c \in ImgCells(matted) :
               LET p == matted[c[2]][c[1]]
               IN  /\ p[4] = 255
                   /\ ~(5 * p[2] > 6 * p[1] /\ 5 * p[2] > 6 * p[3]))
              => first_pass = matted

\* the pass ran over an image of several pixels holding a strongly green
\* opaque pixel whose neighbours are all opaque
C8_Witness ==
    /\ passes >= 1
    /\ Cardinality(ImgCells(matted)) > 1
    /\ \E c \in ImgCells(matted) :
          /\ matted[c[2]][c[1]] = <<0, 255, 0, 255>>
          /\ \A n \in ImgCells(matted) : matted[n[2]][n[1]][4] = 255

\* C9: the pass is idempotent: run over its own output it changes nothing.
C9_Idempotent ==
    passes = 2 => pixels = first_pass

\* C10: remove_green_background never raises: when the enhanced path fails it
\* returns the basic removal of the original image, and when that fails too
\* it returns the original image bytes.
C10_NeverRaises ==
    /\ mpc \in {"start", "loaded", "fallback", "done"}
    /\ degraded >= 1 => mpc \in {"fallback", "done"}
    /\ mpc = "done" /\ degraded = 0 =>
           returned = [kind |-> "cleaned", data |-> CleanupPass(matted)]
    /\ mpc = "done" /\ degraded = 1 =>
           returned = [kind |-> "basic", data |-> image_bytes]
    /\ degraded = 2 =>
           /\ mpc = "done"
           /\ returned = [kind |-> "original", data |-> image_bytes]

\* the pass ran, saving failed, and the basic removal failed as well
C10_Witness ==
    /\ degraded = 2
    /\ passes = 1
    /\ returned.kind = "original"

(***************************************************************************)
(* Properties of generate_parallax_config (checked under SpecParallax)     *)
(***************************************************************************)

\* C11: the config has one entry per input layer, in input order, with the
\* layer's name as id and its depth; the animations are translateX
\* (30*depth/100, 1/speed, phase 0) iff movement is horizontal or both, then
\* translateY (20*depth/100, 1/(1.2*speed), phase 0.25) iff vertical or both,
\* then always scale (0.05*(1 - depth/100), 1/(2*speed), phase 0.5); depth 85
\* with speed 35 gives translateX amplitude 25.5 and frequency 1/35.
C11_ParallaxEntries ==
    ppc = "returned" =>
        /\ Len(parallax_config.layers) = Len(depth_layers)
        /\ \A j \in 1 .. Len(depth_layers) :
              LET l == depth_layers[j]
                  e == parallax_config.layers[j]
                  an == e.animations
                  hx == l.movement \in {"horizontal", "both"}
                  vy == l.movement \in {"vertical", "both"}
                  iy == IF hx THEN 2 ELSE 1
              IN  /\ e.id = l.name
                  /\ e.depth = l.depth
                  /\ Len(an) = (IF hx THEN 1 ELSE 0) + (IF vy THEN 1 ELSE 0) + 1
                  /\ hx => /\ an[1].type = "translateX"
                           /\ FracEq(an[1].amplitude, Frac(30 * l.depth, 100))
                           /\ FracEq(an[1].frequency, Frac(1, l.animation_speed))
                           /\ an[1].phase = 0
                  /\ vy => /\ an[iy].type = "translateY"
                           /\ FracEq(an[iy].amplitude, Frac(20 * l.depth, 100))
                           /\ FracEq(an[iy].frequency,
                                     Frac(100, 120 * l.animation_speed))
                           /\ an[iy].phase = 25
                  /\ an[Len(an)].type = "scale"
                  /\ FracEq(an[Len(an)].amplitude,
                            Frac(5 * (100 - l.depth), 10000))
                  /\ FracEq(an[Len(an)].frequency,
                            Frac(1, 2 * l.animation_speed))
                  /\ an[Len(an)].phase = 50
                  /\ (hx /\ l.depth = 85 /\ l.animation_speed = 35) =>
                         /\ FracEq(an[1].amplitude, Frac(255, 10))
                         /\ FracEq(an[1].frequency, Frac(1, 35))

\* the config of the analysis layers: background 85/35 first, midground
\* moving both ways
C11_Witness ==
    /\ ppc = "returned"
    /\ Len(depth_layers) = 3
    /\ depth_layers[1].depth = 85 /\ depth_layers[1].animation_speed = 35
    /\ depth_layers[2].movement = "both"
    /\ Len(parallax_config.layers[2].animations) = 3

(***************************************************************************)
(* Further properties of the batch runner (checked under Spec)             *)
(***************************************************************************)

Occurrences(q, t) == Cardinality({j \in 1 .. Len(q) : q[j] = t})

C13_BaseBeforePool ==
    /\ (\E t \in Tasks : tstate[t] # "new") =>
           /\ bpc \notin {"entry", "base_call"}
           /\ Len(images) >= 1
           /\ images[1] = BaseImage
    /\ \A t \in Tasks : \A j \in 1 .. Len(calls[t]) :
           calls[t][j].kind = "edit" => calls[t][j].base_image = BaseImage

\* every pooled task has sent its edit call
C13_Witness ==
    \A t \in Tasks : Len(calls[t]) >= 1 /\ calls[t][1].kind = "edit"

\* C14: when a task has failed both calls, the failure raised out of the
\* runner names the index of that task, in every variant of the runner.
C14_FailureNamesTask ==
    (bpc = "raised" /\ raised.kind = "task") =>
        /\ raised.idx \in Tasks
        /\ tstate[raised.idx] = "failed"

\* C15: a failure for an exhausted task leaves the runner only when no pooled
\* task of the batch is still queued or running.
C15_RaisesAfterAllFinished ==
    (bpc = "raised" /\ raised.kind = "task") =>
        /\ queue = <<>>
        /\ \A t \in Tasks : tstate[t] \in {"ok", "failed"}

\* the runner raised although some future was never handed out by
\* as_completed: that task finished while the executor was shutting down
C15_Witness ==
    /\ bpc = "raised"
    /\ raised.kind = "task"
    /\ yielded # Tasks

\* C16 as stated: no variable is written by one pooled task and read or
\* written by another.
C16_NoSharedMutableState ==
    \A a, b \in access :
        (a.task # b.task /\ a.var = b.var) => (a.mode = "read" /\ b.mode = "read")

\* C16 as amended: apart from the module-level credentials object, which
\* every call refreshes and reads, no variable is written by one pooled task
\* and read or written by another; the closure inputs are only read.
C16_OnlyCredentialsShared ==
    /\ \A a, b \in access :
          (a.task # b.task /\ a.var = b.var /\ a.var # "credentials")
              => (a.mode = "read" /\ b.mode = "read")
    /\ \A a \in access :
          a.var \in {"base_prompt", "seed", "negative_prompt", "base_image"}
              => a.mode = "read"

\* two tasks have refreshed the credentials and read the base image
C16_Witness ==
    \E a, b \in access :
        /\ a.task # b.task
        /\ a.var = "credentials" /\ b.var = "credentials"
        /\ a.mode = "write" /\ b.mode = "write"
        /\ Access(a.task, "base_image", "read") \in access
        /\ Access(b.task, "base_image", "read") \in access

\* C17: every task is submitted once and run once, its result is stored once
\* under its own index, and a returned list holds exactly one image per task.
C17_ExactlyOnce ==
    /\ \A t \in Tasks :
          /\ Occurrences(queue, t) = (IF tstate[t] = "queued" THEN 1 ELSE 0)
          /\ Cardinality({j \in 1 .. Len(calls[t]) : calls[t][j].kind = "edit"})
                 = (IF tstate[t] \in {"new", "queued"} THEN 0 ELSE 1)
    /\ bpc \in {"collect", "shutdown", "returned"} =>
           \A t \in Tasks : tstate[t] # "new"
    /\ Cardinality(DictKeys(results)) = Len(results)
    /\ \A j \in 1 .. Len(results) :
          /\ results[j].key \in yielded
          /\ results[j].value = future[results[j].key]
          /\ results[j].value.task = results[j].key
    /\ bpc = "returned" =>
           /\ Len(images) = NumExpressions
           /\ \A t \in Tasks :
                 Cardinality({j \in 1 .. Len(images) : images[j].task = t}) = 1

\* a returned batch whose last task was the first to be collected
C17_Witness ==
    /\ bpc = "returned"
    /\ results[1].key = NumExpressions - 1
    /\ Len(images) = NumExpressions

(***************************************************************************)
(* Degenerate and unusable grids, and the confidence of the result         *)
(* (checked under SpecDepth)                                               *)
(***************************************************************************)

\* every cell of the grid holds the value v
Uniform(g, v) == \A c \in Cells(g) : g[c[1]][c[2]] = v

\* C18: for a grid in which every cell has the same value v the analysis
\* completes, both percentiles equal v, the foreground and midground masks
\* are empty, the background mask is every cell, foreground_ratio is 0,
\* has_person is false and the foreground centroid is (50, 50).
C18_UniformGrid ==
    \A v \in 0 .. MaxDepthValue :
        (dpc = "done" /\ dfail = "none" /\ ~Unusable(depth_array)
             /\ Uniform(depth_array, v)) =>
            /\ "depth_statistics" \in DOMAIN depth_result
            /\ Percentile(depth_array, 30) = 100 * v
            /\ Percentile(depth_array, 70) = 100 * v
            /\ ForegroundMask(depth_array) = {}
            /\ MidgroundMask(depth_array) = {}
            /\ BackgroundMask(depth_array) = Cells(depth_array)
            /\ depth_result.depth_statistics.foreground_ratio.num = 0
            /\ ~depth_result.subject_detection.has_person
            /\ RegionCenter(depth_array, ForegroundMask(depth_array))
                   = [x |-> Frac(50, 1), y |-> Frac(50, 1)]
            /\ depth_result.subject_detection.person_bounds.x = Frac(30, 1)
            /\ depth_result.subject_detection.person_bounds.y = Frac(20, 1)

\* a uniform non-zero grid of more than one row and column was analysed
C18_Witness ==
    /\ Analysed
    /\ Height(depth_array) > 1 /\ Width(depth_array) > 1
    /\ Uniform(depth_array, MaxDepthValue)
    /\ depth_result.subject_detection.person_position = "unknown"

\* C19: when the grid has no elements, so that min, max and percentile
\* cannot be computed, analyze_depth_array returns the default three-layer
\* result and the pipeline ends without an error.
C19_UnusableGivesDefault ==
    (dpc = "done" /\ Unusable(depth_array) /\ dfail \notin EstimatorFailures) =>
        /\ dfail = "array_error"
        /\ depth_result = get_default_depth_result
        /\ Len(depth_result.layers) = 3

\* a grid of one row without columns reached analyze_depth_array
C19_Witness ==
    /\ dpc = "done"
    /\ dfail = "array_error"
    /\ depth_array = << <<>> >>
    /\ depth_result = get_default_depth_result

\* C20: every result of the pipeline carries subject_detection.confidence,
\* the value lies in [0, 1], and it equals depth_statistics.foreground_ratio.
C20_ConfidenceConsistent ==
    dpc = "done" =>
        /\ "confidence" \in DOMAIN depth_result.subject_detection
        /\ "depth_statistics" \in DOMAIN depth_result
        /\ LET conf == depth_result.subject_detection.confidence
           IN  /\ conf.num >= 0
               /\ conf.num <= conf.den
               /\ conf = depth_result.depth_statistics.foreground_ratio

(***************************************************************************)
(* Centroid and subject bounds (checked under SpecDepth)                   *)
(***************************************************************************)

\* the sum over the cells of mask of the 0-based index along axis k
\* (k = 1: row, k = 2: column)
IndexSum(g, mask, k) ==
    SumSeq(Flatten([i \in 1 .. Height(g) |-> [j \in 1 .. Width(g) |->
               IF <<i, j>> \in mask THEN <<i, j>>[k] - 1 ELSE 0]]))

\* C21: in every analysis result the foreground centroid is
\* (mean column index / width * 100, mean row index / height * 100) over the
\* foreground cells, or (50, 50) when there are none, and person_bounds is
\* x = centroid_x - 20, y = centroid_y - 30, width = 40, height = 60.
C21_CentroidAndBounds ==
    Analysed =>
        LET g == depth_array
            fg == ForegroundMask(g)
            n == Cardinality(fg)
            cx == IF n = 0 THEN Frac(50, 1)
                  ELSE Frac(100 * IndexSum(g, fg, 2), n * Width(g))
            cy == IF n = 0 THEN Frac(50, 1)
                  ELSE Frac(100 * IndexSum(g, fg, 1), n * Height(g))
            pb == depth_result.subject_detection.person_bounds
        IN  /\ FracEq(RegionCenter(g, fg).x, cx)
            /\ FracEq(RegionCenter(g, fg).y, cy)
            /\ FracEq(pb.x, Frac(cx.num - 20 * cx.den, cx.den))
            /\ FracEq(pb.y, Frac(cy.num - 30 * cy.den, cy.den))
            /\ pb.width = 40
            /\ pb.height = 60

\* an analysed grid whose foreground centroid differs between the two axes
C21_Witness ==
    /\ Analysed
    /\ ForegroundMask(depth_array) # {}
    /\ Height(depth_array) > 1 /\ Width(depth_array) > 1
    /\ LET c == RegionCenter(depth_array, ForegroundMask(depth_array))
       IN  ~FracEq(c.x, c.y)

(***************************************************************************)
(* Further properties of the matte cleanup pass (checked under SpecMatte)  *)
(***************************************************************************)

\* the pass with every neighbour alpha read from the unmodified input
SnapshotPass(img) ==
    [y \in 1 .. ImgHeight(img) |->
        [x \in 1 .. ImgWidth(img) |-> CleanedPixel(img, x, y)]]

\* C22: the result of the pass does not depend on the visiting order: every
\* fully opaque, strongly green pixel with an in-bounds 8-neighbour whose
\* alpha in the input image is below 255 gets the red/blue average as green,
\* and the in-place raster pass equals the pass over a snapshot of the input.
C22_OrderIndependent ==
    passes >= 1 =>
        /\ first_pass = SnapshotPass(matted)
        /\ \A c \in ImgCells(matted) :
               LET p == matted[c[2]][c[1]]
               IN  (p[4] = 255 /\ StronglyGreen(p) /\ IsEdge(matted, c[1], c[2]))
                       => first_pass[c[2]][c[1]] = Desaturated(p)

\* C23: every input pixel with 0 < alpha < 255 that is green-dominant
\* (g > 1.2*r and g > 1.2*b) leaves the pass with green = floor((r + b) / 2),
\* also when its alpha is snapped to 0 or to 255.
C23_GreenCorrectionKept ==
    passes >= 1 =>
        \A c \in ImgCells(matted) :
            LET p == matted[c[2]][c[1]]
            IN  (0 < p[4] /\ p[4] < 255
                    /\ 5 * p[2] > 6 * p[1] /\ 5 * p[2] > 6 * p[3])
                   => first_pass[c[2]][c[1]][2] = (p[1] + p[3]) \div 2

\* the alpha map of the claim
AlphaSnap(a) ==
    IF a \in 1 .. 29 THEN 0 ELSE IF a \in 226 .. 254 THEN 255 ELSE a

\* C24: the pass maps alpha 0 to 0, 1..29 to 0, 30..225 to itself, 226..254 to
\* 255 and 255 to 255; no output pixel has alpha in 1..29 or in 226..254.
C24_AlphaSnap ==
    passes >= 1 =>
        \A c \in ImgCells(matted) :
            /\ first_pass[c[2]][c[1]][4] = AlphaSnap(matted[c[2]][c[1]][4])
            /\ first_pass[c[2]][c[1]][4] \notin (1 .. 29) \cup (226 .. 254)

\* the pass ran over an image holding a nearly transparent and a nearly
\* opaque pixel, and snapped both
C24_Witness ==
    /\ passes >= 1
    /\ \E c, d \in ImgCells(matted) :
          /\ matted[c[2]][c[1]][4] \in 1 .. 29
          /\ first_pass[c[2]][c[1]][4] = 0
          /\ matted[d[2]][d[1]][4] \in 226 .. 254
          /\ first_pass[d[2]][d[1]][4] = 255

\* C27: the pass never changes the red or blue channel of a pixel and never
\* increases its green channel; width and height are unchanged.
C27_FrameOfPass ==
    passes >= 1 =>
        /\ ImgWidth(first_pass) = ImgWidth(matted)
        /\ ImgHeight(first_pass) = ImgHeight(matted)
        /\ \A c \in ImgCells(matted) :
               LET p == matted[c[2]][c[1]]
                   q == first_pass[c[2]][c[1]]
               IN  q[1] = p[1] /\ q[3] = p[3] /\ q[2] <= p[2]

\* the pass lowered the green of a pixel whose red and blue differ
C27_Witness ==
    /\ passes >= 1
    /\ \E c \in ImgCells(matted) :
          LET p == matted[c[2]][c[1]]
              q == first_pass[c[2]][c[1]]
          IN  p[1] # p[3] /\ q[2] < p[2] /\ q[2] = (p[1] + p[3]) \div 2

(***************************************************************************)
(* Depth ordering of the parallax amplitudes (checked under SpecParallax)  *)
(***************************************************************************)

\* the amplitude of the animation of the given type of a configured layer
Amplitude(l, type) ==
    LET k == CHOOSE k \in 1 .. Len(l.animations) : l.animations[k].type = type
    IN  l.animations[k].amplitude

\* C25: of two layers of one call with depths d1 < d2 in 0..100 and a
\* movement that includes horizontal, the deeper one gets the strictly larger
\* translateX amplitude and the strictly smaller scale amplitude; no scale
\* amplitude is negative.
C25_DepthOrdersAmplitudes ==
    ppc = "returned" =>
        LET out == parallax_config.layers
            Horizontal(j) == depth_layers[j].movement \in {"horizontal", "both"}
        IN  /\ \A i, j \in 1 .. Len(out) :
                   (/\ out[i].depth < out[j].depth
                    /\ out[i].depth \in 0 .. 100 /\ out[j].depth \in 0 .. 100
                    /\ Horizontal(i) /\ Horizontal(j)) =>
                       /\ FracLess(Amplitude(out[i], "translateX"),
                                   Amplitude(out[j], "translateX"))
                       /\ FracLess(Amplitude(out[j], "scale"),
                                   Amplitude(out[i], "scale"))
            /\ \A j \in 1 .. Len(out) :
                   /\ Amplitude(out[j], "scale").num >= 0
                   /\ Amplitude(out[j], "scale").den > 0

\* a config was built for two horizontal layers of depths 99 and 100
C25_Witness ==
    /\ ppc = "returned"
    /\ Len(parallax_config.layers) = 2
    /\ parallax_config.layers[1].depth = 100
    /\ parallax_config.layers[2].depth = 99
    /\ depth_layers[1].movement = "both"
    /\ Amplitude(parallax_config.layers[1], "scale").num = 0

(***************************************************************************)
(* Size of the foreground band (checked under SpecDepth)                   *)
(***************************************************************************)

\* C26: for every non-empty grid of n integer cells at most
\* floor(0.3 * (n - 1)) + 1 cells lie strictly below the interpolated 30th
\* percentile, so foreground_ratio is at most 0.5 and is 0.5 only for n = 2;
\* for n > 2 has_person is equivalent to foreground_ratio > 0.05.
C26_ForegroundAtMostHalf ==
    Analysed =>
        LET n == Size(depth_array)
            count == Cardinality(ForegroundMask(depth_array))
            ratio == depth_result.depth_statistics.foreground_ratio
        IN  /\ count <= (30 * (n - 1)) \div 100 + 1
            /\ FracEq(ratio, Frac(count, n))
            /\ 2 * ratio.num <= ratio.den
            /\ 2 * ratio.num = ratio.den => n = 2
            /\ n > 2 => (depth_result.subject_detection.has_person
                            <=> 20 * ratio.num > ratio.den)

\* a grid of more than two cells whose foreground holds exactly
\* floor(0.3 * (n - 1)) + 1 cells, with a person detected
C26_Witness ==
    /\ Analysed
    /\ Size(depth_array) > 2
    /\ Cardinality(ForegroundMask(depth_array))
           = (30 * (Size(depth_array) - 1)) \div 100 + 1
    /\ depth_result.subject_detection.has_person

(***************************************************************************)
(* Base failure and termination of the batch runner                        *)
(***************************************************************************)

\* C28: when the base call for task 0 fails the runner fails the batch; the
\* base call is not sent again, nothing is submitted to the pool and no
\* edit or fallback call is issued.
C28_BaseFailureStopsBatch ==
    raised.kind = "base" =>
        /\ bpc = "raised"
        /\ images = <<>>
        /\ queue = <<>>
        /\ \A t \in Tasks : tstate[t] = "new" /\ calls[t] = <<>>
        /\ access = {}

\* the base call failed and the batch was failed
C28_Witness ==
    /\ raised.kind = "base"
    /\ bpc = "raised"
    /\ credentials

\* C29 (under SpecLive): every execution of the runner ends, by returning
\* the image list or by raising a batch failure.
C29_Terminates == <>(bpc \in {"returned", "raised"})

\* an execution ended in a batch failure after one task had failed both of
\* its calls while another had succeeded through its fallback
C29_Witness ==
    /\ bpc = "raised"
    /\ raised.kind = "task"
    /\ \E t, u \in Tasks :
          /\ tstate[t] = "failed" /\ Len(calls[t]) = 2
          /\ tstate[u] = "ok" /\ Len(calls[u]) = 2

(***************************************************************************)
(* The endpoint after a successful generation (checked under SpecEndpoint) *)
(***************************************************************************)

\* the images a response carries, decoded
Carried(resp) ==
    IF resp.kind = "base64_list"
    THEN [j \in 1 .. Len(resp.images) |-> resp.images[j].b64]
    ELSE [j \in 1 .. Len(resp.entries) |-> resp.entries[j].data]

\* C30: for every mode and return type, once the runner has returned its
\* images the endpoint answers with a success response carrying as many
\* images in the runner's order: in normal mode each one matted or the
\* original, in emo and fantasy mode the images unchanged.
C30_SuccessIsReturned ==
    (epc = "done" /\ generated # <<>>) =>
        /\ response.kind \in {"base64_list", "zip"}
        /\ Len(Carried(response)) = Len(generated)
        /\ \A j \in 1 .. Len(generated) :
               /\ Carried(response)[j].expr = generated[j].expr
               /\ request.mode # "normal" => Carried(response)[j] = generated[j]

====
